---- MODULE Spec2Model ----
(***************************************************************************)
(* Model of mayatest: the TestNode tree of the test runner dialog and its  *)
(* status aggregation (mayaunittestui.py), the TestCaptureStream colouring *)
(* (mayaunittestui.py), and the TestCase plug-in / temp file bookkeeping   *)
(* (mayaunittest.py).                                                      *)
(***************************************************************************)
EXTENDS Integers, Sequences, FiniteSets, TLC

VARIABLES
    \* ---- TestNode tree / TestTreeModel (mayaunittestui.py) ----
    parent,        \* BaseTreeNode._parent of every node but the root
    children,      \* BaseTreeNode.children of every node, in add_child order
    testClass,     \* test.__class__.__name__ of every leaf (TestCase) node
    status,        \* TestNode.status, the stored field
    tool_tip,      \* TestNode.tool_tip
    result,        \* the TestResult of the last run_tests: its four lists
    query,         \* the last get_status call and the value it returned
    \* ---- TestCaptureStream (mayaunittestui.py) ----
    textColor,     \* QTextEdit current text colour
    console,       \* what insertPlainText put in the QTextEdit: <<text, colour>>
    \* ---- TestCase / Settings (mayaunittest.py) ----
    plugins_loaded,  \* TestCase.plugins_loaded, the attribute of the base class
    own_plugins,     \* per test case class: the class's own plugins_loaded, if assigned
    maya_plugins,    \* the plug-ins loaded in the host application
    loaded_by,       \* history: the plug-ins each class loaded since its last teardown
    teardown,        \* history: the last tearDownClass, what it unloaded and deleted
    load_raised,     \* history: some load_plugin call raised
    files_created,   \* TestCase.files_created
    disk,            \* the files that exist on disk
    dirs,            \* the directories that exist on disk
    delete_files,    \* Settings.delete_files
    temp_dir,        \* Settings.temp_dir
    last,            \* the operation executed last
    buffer_output,   \* Settings.buffer_output
    file_new,        \* Settings.file_new
    set_call,        \* history: the last set_temp_dir call and the settings before it
    removed,         \* history: the last BaseTreeNode.remove call
    environ,         \* whether CMT_UNITTEST is in os.environ
    runner,          \* the runner whose run is under way, if any
    test_pc,         \* how far the test under way has got
    resets,          \* history: the scene resets since the test under way started
    editor,          \* the script editor's suppress flags
    saved,           \* ScriptEditorState.suppress_results, ... : the saved flags
    editor_before,   \* history: the script editor's flags at the last startTestRun
    logging_level,   \* the level logging.disable was last given
    selection,       \* the paths of the indices selected in the view
    test_paths       \* the paths run_selected_tests hands to get_tests

treeVars == <<parent, children, testClass, status, tool_tip, result, query>>
streamVars == <<textColor, console>>
pluginVars == <<plugins_loaded, own_plugins, maya_plugins, loaded_by, load_raised>>
fileVars == <<files_created, disk, dirs, delete_files, temp_dir>>
settingVars == <<buffer_output, file_new, set_call>>
runVars == <<environ, runner, test_pc, resets>>
editorVars == <<editor, saved, editor_before, logging_level>>
selectVars == <<selection, test_paths>>
moreVars == <<settingVars, removed, runVars, editorVars, selectVars>>
vars == <<parent, children, testClass, status, tool_tip, result, query, textColor, console,
          plugins_loaded, own_plugins, maya_plugins, loaded_by, teardown,
          load_raised, files_created, disk, dirs, delete_files, temp_dir, last,
          buffer_output, file_new, set_call, removed, environ, runner, test_pc,
          resets, editor, saved, editor_before, logging_level, selection, test_paths>>

(***************************************************************************)
(* Bounds                                                                  *)
(***************************************************************************)
MaxNodes == 3
MaxSuite == 1
MaxWrites == 2
MaxFiles == 2
MaxSelected == 2

(***************************************************************************)
(* TestStatus                                                              *)
(***************************************************************************)
not_run == 0
success == 1
fail == 2
error == 3
skipped == 4

TestStatus == {not_run, success, fail, error, skipped}

(***************************************************************************)
(* The tree: BaseTreeNode                                                  *)
(***************************************************************************)
Root == 0
Nodes == 0 .. (MaxNodes - 1)

RECURSIVE SortedSeq(_)
SortedSeq(S) ==
    IF S = {} THEN <<>>
    ELSE LET m == CHOOSE x \in S : \A y \in S : x <= y
         IN <<m>> \o SortedSeq(S \ {m})

\* BaseTreeNode.child_count
child_count(n) == Len(children[n])

IsLeaf(n) == child_count(n) = 0

Leaves == {n \in Nodes : IsLeaf(n)}

RECURSIVE AncestorsIn(_, _)
AncestorsIn(p, n) == IF n = Root THEN {} ELSE {p[n]} \cup AncestorsIn(p, p[n])

Ancestors(n) == AncestorsIn(parent, n)

\* the trees TestNode.__init__ builds: a node creates its children one after
\* the other, each with all its descendants, so with the nodes numbered in the
\* order they are created the parent of a node is the node created just before
\* it or an ancestor of that node
Trees ==
    {p \in {q \in [Nodes \ {Root} -> Nodes] : \A c \in Nodes \ {Root} : q[c] < c} :
        \A c \in Nodes \ {Root, 1} : p[c] \in {c - 1} \cup AncestorsIn(p, c - 1)}

Descendants(n) == {d \in Nodes : n \in Ancestors(d)}

LeafDescendants(n) == Descendants(n) \cap Leaves

(***************************************************************************)
(* TestNode                                                                *)
(***************************************************************************)
TestClasses == {"ModuleImportFailure", "SampleTests"}

\* test.__class__.__name__: leaves hold a TestCase, the other nodes a TestSuite
class_name(n) == IF IsLeaf(n) THEN testClass[n] ELSE "TestSuite"

\* TestNode.name
name(n) ==
    IF IsLeaf(n) THEN "test_method"
    ELSE IF IsLeaf(children[n][1]) THEN class_name(children[n][1])
    ELSE "test_module"

\* TestNode.__init__: the tool tip is str(test), or the traceback of the
\* ImportError that calling a ModuleImportFailure test raises
init_tool_tip(n, cls) ==
    IF cls = "ModuleImportFailure" THEN "import_traceback" ELSE "str_test"

RECURSIVE get_status(_)
RECURSIVE merge_children(_, _, _)

\* merge_children with an error child stored like a fail child, no early return
merge_children_error_no_return(ch, i, res) ==
    IF i > Len(ch) THEN res
    ELSE LET child_status == get_status(ch[i])
         IN IF child_status = error THEN merge_children(ch, i + 1, child_status)
            ELSE IF child_status = fail THEN merge_children(ch, i + 1, child_status)
            ELSE IF child_status = success /\ res # fail
                 THEN merge_children(ch, i + 1, child_status)
            ELSE IF child_status = skipped /\ res # fail
                 THEN merge_children(ch, i + 1, child_status)
            ELSE merge_children(ch, i + 1, res)

\* merge_children with the "result != fail" tests dropped
merge_children_fail_overwritten(ch, i, res) ==
    IF i > Len(ch) THEN res
    ELSE LET child_status == get_status(ch[i])
         IN IF child_status = error THEN child_status
            ELSE IF child_status = fail THEN merge_children(ch, i + 1, child_status)
            ELSE IF child_status = success THEN merge_children(ch, i + 1, child_status)
            ELSE IF child_status = skipped THEN merge_children(ch, i + 1, child_status)
            ELSE merge_children(ch, i + 1, res)

\* merge_children with every child's status but error and fail stored
merge_children_not_run_stored(ch, i, res) ==
    IF i > Len(ch) THEN res
    ELSE LET child_status == get_status(ch[i])
         IN IF child_status = error THEN child_status
            ELSE IF child_status = fail THEN merge_children(ch, i + 1, child_status)
            ELSE IF res # fail THEN merge_children(ch, i + 1, child_status)
            ELSE merge_children(ch, i + 1, res)

\* the for loop of TestNode.get_status over self.children, from child i on
merge_children(ch, i, res) ==
    IF i > Len(ch) THEN res
    ELSE LET child_status == get_status(ch[i])
         IN IF child_status = error THEN child_status
            ELSE IF child_status = fail THEN merge_children(ch, i + 1, child_status)
            ELSE IF child_status = success /\ res # fail
                 THEN merge_children(ch, i + 1, child_status)
            ELSE IF child_status = skipped /\ res # fail
                 THEN merge_children(ch, i + 1, child_status)
            ELSE merge_children(ch, i + 1, res)

\* get_status without the ModuleImportFailure test
get_status_no_import_failure(n) ==
    IF children[n] = <<>> THEN status[n]
    ELSE merge_children(children[n], 1, not_run)

\* TestNode.get_status
get_status(n) ==
    IF "ModuleImportFailure" \in {name(n), class_name(n)} THEN error
    ELSE IF children[n] = <<>> THEN status[n]
    ELSE merge_children(children[n], 1, not_run)

(***************************************************************************)
(* TestTreeModel                                                           *)
(***************************************************************************)
RECURSIVE setDataDecoration(_, _, _)

\* setData going on to the parent whenever the node has one, the root included
setDataDecoration_to_root(st, n, value) ==
    LET st2 == [st EXCEPT ![n] = value]
    IN IF n # Root THEN setDataDecoration(st2, parent[n], value) ELSE st2

\* TestTreeModel.setData with Qt.DecorationRole: st is the status of every node
setDataDecoration(st, n, value) ==
    LET st2 == [st EXCEPT ![n] = value]
    IN IF parent[n] # Root THEN setDataDecoration(st2, parent[n], value) ELSE st2

\* TestTreeModel.setData with Qt.ToolTipRole
setDataToolTip(tt, n, value) == [tt EXCEPT ![n] = value]

\* the reason unittest stores with a test in result.failures / errors / skipped
reason(n, stat) ==
    IF stat = fail THEN "failure_traceback"
    ELSE IF stat = skipped THEN "skip_reason"
    ELSE IF class_name(n) = "ModuleImportFailure" THEN "import_error_traceback"
    ELSE "error_traceback"

RECURSIVE set_test_result_data(_, _, _, _)

\* TestTreeModel._set_test_result_data: s = [status, tool_tip], test_list from
\* entry i on
set_test_result_data(s, test_list, i, stat) ==
    IF i > Len(test_list) THEN s
    ELSE LET n == test_list[i]
             s2 == [tool_tip |-> setDataToolTip(s.tool_tip, n, reason(n, stat)),
                    status |-> setDataDecoration(s.status, n, stat)]
         IN set_test_result_data(s2, test_list, i + 1, stat)

RECURSIVE set_successes(_, _, _)

\* the loop of run_tests over result.successes
set_successes(s, tests, i) ==
    IF i > Len(tests) THEN s
    ELSE LET n == tests[i]
             s2 == [tool_tip |-> setDataToolTip(s.tool_tip, n, "Test Passed"),
                    status |-> setDataDecoration(s.status, n, success)]
         IN set_successes(s2, tests, i + 1)

\* the tests of one list of the result, in the order they ran
test_list(res, stat) == SortedSeq({n \in Leaves : stat \in res[n]})

\* run_tests with the errors stored before the failures
run_tests_update_errors_first(s, res) ==
    LET s1 == set_test_result_data(s, test_list(res, error), 1, error)
        s2 == set_test_result_data(s1, test_list(res, fail), 1, fail)
        s3 == set_test_result_data(s2, test_list(res, skipped), 1, skipped)
    IN set_successes(s3, test_list(res, success), 1)

\* TestTreeModel.run_tests after runner.run, for a result whose entries are all
\* tests of the tree: res[n] is the set of lists the test of leaf n is in
run_tests_update(s, res) ==
    LET s1 == set_test_result_data(s, test_list(res, fail), 1, fail)
        s2 == set_test_result_data(s1, test_list(res, error), 1, error)
        s3 == set_test_result_data(s2, test_list(res, skipped), 1, skipped)
    IN set_successes(s3, test_list(res, success), 1)

\* what unittest can record for one test that ran: a success, or any mix of a
\* failure, an error and a skip (setUp, the test method and tearDown each add
\* their own); a ModuleImportFailure test raises ImportError
Outcomes(n) ==
    IF class_name(n) = "ModuleImportFailure" THEN {{error}}
    ELSE {{success}} \cup (SUBSET {fail, error, skipped} \ {{}})

NoResult == [n \in Leaves |-> {}]

\* the results of running a suite of at most MaxSuite tests of this tree: a
\* test that is not in the suite is in no list
Results ==
    UNION {
        {[n \in Leaves |-> IF n \in suite THEN o[n] ELSE {}] :
            o \in [suite -> UNION {Outcomes(n) : n \in suite}]}
        : suite \in {t \in SUBSET Leaves : Cardinality(t) <= MaxSuite}}

ValidResult(res) == \A n \in Leaves : res[n] = {} \/ res[n] \in Outcomes(n)

NoQuery == [asked |-> FALSE, value |-> [n \in Nodes |-> not_run]]

(***************************************************************************)
(* TestCaptureStream                                                       *)
(***************************************************************************)
\* str.startswith
startswith(text, prefix) ==
    /\ Len(text) >= Len(prefix)
    /\ SubSeq(text, 1, Len(prefix)) = prefix

\* the texts written to the stream, as sequences of characters: what the
\* runner writes at verbosity 2 and texts that differ from it in case, in
\* length or by a leading character
Texts == {
    <<"o", "k">>,
    <<"o", "k", " ", "x">>,
    <<"O", "K">>,
    <<"o">>,
    <<" ", "o", "k">>,
    <<"F", "A", "I", "L">>,
    <<"F", "A", "I", "L", ":", " ", "x">>,
    <<"f", "a", "i", "l">>,
    <<"E", "R", "R", "O", "R">>,
    <<"E", "r", "r", "o", "r">>,
    <<"s", "k", "i", "p", "p", "e", "d">>,
    <<"s", "k", "i", "p", "p", "e", "d", " ", "x">>,
    <<"s", "k", "i", "p">>,
    <<"x">>,
    <<"\n">>,
    <<>> }

\* the colour TestCaptureStream.write sets before it inserts the text; current
\* is the colour the QTextEdit has when no prefix matches
write_color(text, current) ==
    IF startswith(text, <<"o", "k">>) THEN "success_color"
    ELSE IF startswith(text, <<"F", "A", "I", "L">>) THEN "fail_color"
    ELSE IF startswith(text, <<"E", "R", "R", "O", "R">>) THEN "error_color"
    ELSE IF startswith(text, <<"s", "k", "i", "p", "p", "e", "d">>) THEN "skip_color"
    ELSE current

\* TestCaptureStream.__init__ keeps the QTextEdit and sets no colour: the text
\* colour is the one the widget has from its palette
InitStream ==
    /\ textColor = "palette_text"
    /\ console = <<>>

\* TestCaptureStream.write
Write(text) ==
    /\ Len(console) < MaxWrites
    /\ console' = Append(console, <<text, write_color(text, textColor)>>)
    /\ textColor' = "normal_color"
    /\ last' = "write"
    /\ UNCHANGED <<treeVars, pluginVars, teardown, fileVars,
                   moreVars>>

(***************************************************************************)
(* TestCase: plug-ins                                                      *)
(***************************************************************************)
Classes == {"TestA", "TestB"}
Plugins == {"p1", "p2"}

NoTeardown ==
    [cls |-> "none", unloaded |-> {}, expected |-> {},
     delete_files |-> FALSE, registered |-> <<>>, disk |-> {}]

\* TestCase.load_plugin: cmds.loadPlugin, then plugins_loaded.add, which raises
\* AttributeError when the class has a list of its own in plugins_loaded
LoadPlugin(c, plugin) ==
    /\ maya_plugins' = maya_plugins \cup {plugin}
    /\ IF own_plugins[c] = "list"
       THEN /\ load_raised' = TRUE
            /\ UNCHANGED plugins_loaded
       ELSE /\ plugins_loaded' = plugins_loaded \cup {plugin}
            /\ UNCHANGED load_raised
    /\ loaded_by' = [loaded_by EXCEPT ![c] = @ \cup {plugin}]
    /\ last' = "load_plugin"
    /\ UNCHANGED <<treeVars, streamVars, own_plugins, teardown, fileVars,
                   moreVars>>

\* cls.plugins_loaded as unload_plugins reads it: the class's own empty list
\* once it has one, the set of the base class before
cls_plugins_loaded(c) == IF own_plugins[c] = "list" THEN {} ELSE plugins_loaded

\* TestCase.unload_plugins: the plug-ins it hands to cmds.unloadPlugin, loaded
\* in the host application or not
unload_plugins(c) == cls_plugins_loaded(c)

(***************************************************************************)
(* TestCase: temp files                                                    *)
(***************************************************************************)
Digits == <<"1", "2", "3", "4", "5", "6", "7", "8", "9">>

\* the file names asked for, without their extension
FileNames == {<<"a">>, <<"a", "1">>}

\* "{0}/{1}{2}{3}".format(temp_dir, base_name, count, ext); count 0 stands for
\* the first format, without a count
format_path(dir, base_name, count) ==
    [dir |-> dir,
     name |-> IF count = 0 THEN base_name ELSE base_name \o <<Digits[count]>>,
     ext |-> ".txt"]

RECURSIVE temp_path(_, _, _, _)

\* the while loop of get_temp_filename
temp_path(files, dir, base_name, count) ==
    IF format_path(dir, base_name, count) \in files
    THEN temp_path(files, dir, base_name, count + 1)
    ELSE format_path(dir, base_name, count)

\* TestCase.get_temp_filename
GetTempFilename(file_name) ==
    /\ Len(files_created) < MaxFiles
    /\ dirs' = dirs \cup {temp_dir}
    /\ files_created' = Append(files_created, temp_path(disk, temp_dir, file_name, 0))
    /\ last' = "get_temp_filename"
    /\ UNCHANGED <<treeVars, streamVars, pluginVars, teardown, disk, delete_files,
                   temp_dir,
                   moreVars>>

\* the caller of get_temp_filename writes the file
CreateFile(i) ==
    /\ files_created[i].dir \in dirs
    /\ files_created[i] \notin disk
    /\ disk' = disk \cup {files_created[i]}
    /\ last' = "create_file"
    /\ UNCHANGED <<treeVars, streamVars, pluginVars, teardown, files_created, dirs,
                   delete_files, temp_dir,
                   moreVars>>

\* set_delete_files
SetDeleteFiles(value) ==
    /\ delete_files # value
    /\ delete_files' = value
    /\ last' = "set_delete_files"
    /\ UNCHANGED <<treeVars, streamVars, pluginVars, teardown, files_created, disk,
                   dirs, temp_dir,
                   moreVars>>

Range(f) == {f[i] : i \in DOMAIN f}

\* the files left by TestCase.delete_temp_files: os.remove of every file of
\* files_created that exists, then shutil.rmtree of Settings.temp_dir
delete_temp_files_disk ==
    IF delete_files
    THEN {f \in disk \ Range(files_created) : f.dir # temp_dir}
    ELSE disk

\* the directories left by TestCase.delete_temp_files
delete_temp_files_dirs == IF delete_files THEN dirs \ {temp_dir} ELSE dirs

\* files_created after TestCase.delete_temp_files: the method assigns the empty
\* list to cls.files_create, an attribute nothing reads, and files_created
\* keeps its entries
delete_temp_files_cache == files_created

\* TestCase.tearDownClass: delete_temp_files, then unload_plugins, which ends
\* with cls.plugins_loaded = [], an attribute of the class itself; teardown
\* records what the call was given and what it did
TearDownClass(c) ==
    /\ disk' = delete_temp_files_disk
    /\ dirs' = delete_temp_files_dirs
    /\ files_created' = delete_temp_files_cache
    /\ maya_plugins' = maya_plugins \ unload_plugins(c)
    /\ own_plugins' = [own_plugins EXCEPT ![c] = "list"]
    /\ loaded_by' = [loaded_by EXCEPT ![c] = {}]
    /\ teardown' = [cls |-> c, unloaded |-> unload_plugins(c),
                    expected |-> loaded_by[c], delete_files |-> delete_files,
                    registered |-> files_created, disk |-> disk]
    /\ last' = "tearDownClass"
    /\ UNCHANGED <<treeVars, streamVars, plugins_loaded, load_raised, delete_files,
                   temp_dir,
                   moreVars>>

InitCase ==
    /\ plugins_loaded = {}
    /\ own_plugins = [c \in Classes |-> "inherited"]
    /\ maya_plugins = {}
    /\ loaded_by = [c \in Classes |-> {}]
    /\ teardown = NoTeardown
    /\ load_raised = FALSE
    /\ files_created = <<>>
    /\ disk = {}
    /\ dirs = {}
    /\ delete_files = TRUE
    /\ temp_dir = "tmp1"

(***************************************************************************)
(* Settings                                                                *)
(***************************************************************************)
\* the directories a caller may name; "tmp1" is the uuid directory of Settings
DirNames == {"tmp1", "tmp2", "tmp3"}

\* the four settings
settings == [temp_dir |-> temp_dir, delete_files |-> delete_files,
             buffer_output |-> buffer_output, file_new |-> file_new]

InitSettings ==
    /\ buffer_output = FALSE
    /\ file_new = TRUE
    /\ set_call = [directory |-> "none", existed |-> FALSE, raised |-> FALSE,
                   before |-> [temp_dir |-> "tmp1", delete_files |-> TRUE,
                               buffer_output |-> FALSE, file_new |-> TRUE]]

\* set_temp_dir assigning before it looks whether the directory exists
set_temp_dir_unchecked(directory) ==
    [temp_dir |-> directory, raised |-> directory \notin dirs]

\* set_temp_dir: the directory set and whether RuntimeError is raised
set_temp_dir(directory) ==
    IF directory \in dirs
    THEN [temp_dir |-> directory, raised |-> FALSE]
    ELSE [temp_dir |-> temp_dir, raised |-> TRUE]

\* set_temp_dir
SetTempDir(directory) ==
    /\ temp_dir' = set_temp_dir(directory).temp_dir
    /\ set_call' = [directory |-> directory, existed |-> directory \in dirs,
                    raised |-> set_temp_dir(directory).raised, before |-> settings]
    /\ last' = "set_temp_dir"
    /\ UNCHANGED <<treeVars, streamVars, pluginVars, teardown, files_created, disk, dirs,
                   delete_files, buffer_output, file_new, removed, runVars, editorVars,
                   selectVars>>

\* a directory made outside the module, before a caller names it
MakeDir(directory) ==
    /\ directory \notin dirs
    /\ dirs' = dirs \cup {directory}
    /\ last' = "makedirs"
    /\ UNCHANGED <<treeVars, streamVars, pluginVars, teardown, files_created, disk,
                   delete_files, temp_dir, moreVars>>

\* set_buffer_output
SetBufferOutput(value) ==
    /\ buffer_output' = value
    /\ last' = "set_buffer_output"
    /\ UNCHANGED <<treeVars, streamVars, pluginVars, teardown, fileVars, file_new,
                   set_call, removed, runVars, editorVars, selectVars>>

\* set_file_new
SetFileNew(value) ==
    /\ file_new' = value
    /\ last' = "set_file_new"
    /\ UNCHANGED <<treeVars, streamVars, pluginVars, teardown, fileVars, buffer_output,
                   set_call, removed, runVars, editorVars, selectVars>>

\* BaseTreeNode._parent of a node that has no parent: None
NoParent == -1

NoRemoval == [node |-> NoParent, parent |-> NoParent, descendants |-> {}]

InitRemove == removed = NoRemoval

(***************************************************************************)
(* TestResult and ScriptEditorState: a run of the custom runner, and the    *)
(* tests of a run                                                          *)
(***************************************************************************)
\* the flags of cmds.scriptEditorInfo that ScriptEditorState handles
Flags == {"suppressResults", "suppressErrors", "suppressWarnings", "suppressInfo"}

InitRun ==
    /\ environ = FALSE
    /\ runner = "none"
    /\ test_pc = "none"
    /\ resets = 0

InitEditor ==
    /\ editor = [f \in Flags |-> FALSE]
    /\ saved = [f \in Flags |-> "None"]
    /\ editor_before = [f \in Flags |-> FALSE]
    /\ logging_level = "NOTSET"

\* str of a flag cmds.scriptEditorInfo reports
flag_str(b) == IF b THEN "True" ELSE "False"

\* ScriptEditorState.suppress_output: the flags and the saved flags it leaves
suppress_output ==
    IF buffer_output
    THEN [saved |-> [f \in Flags |-> flag_str(editor[f])], editor |-> [f \in Flags |-> TRUE]]
    ELSE [saved |-> saved, editor |-> editor]

\* ScriptEditorState.restore_output: the flags it leaves; the saved flags stay
restore_output ==
    IF "None" \notin {saved[f] : f \in Flags}
    THEN [f \in Flags |-> saved[f] = "True"]
    ELSE editor

\* TestResult.startTestRun
StartTestRun ==
    /\ runner = "none"
    /\ test_pc = "none"
    /\ environ' = TRUE
    /\ editor' = suppress_output.editor
    /\ saved' = suppress_output.saved
    /\ logging_level' = IF buffer_output THEN "CRITICAL" ELSE logging_level
    /\ editor_before' = editor
    /\ runner' = "custom"
    /\ last' = "startTestRun"
    /\ UNCHANGED <<treeVars, streamVars, pluginVars, teardown, fileVars, settingVars,
                   removed, test_pc, resets, selectVars>>

\* TestResult.stopTestRun
StopTestRun ==
    /\ runner = "custom"
    /\ test_pc = "none"
    /\ logging_level' = IF buffer_output THEN "NOTSET" ELSE logging_level
    /\ editor' = restore_output
    /\ IF delete_files /\ temp_dir \in dirs
       THEN /\ disk' = {f \in disk : f.dir # temp_dir}
            /\ dirs' = dirs \ {temp_dir}
       ELSE UNCHANGED <<disk, dirs>>
    /\ environ' = FALSE
    /\ runner' = "none"
    /\ last' = "stopTestRun"
    /\ UNCHANGED <<treeVars, streamVars, pluginVars, teardown, files_created, delete_files,
                   temp_dir, settingVars, removed, test_pc, resets, saved, editor_before,
                   selectVars>>

\* a runner starts a test of a TestCase class
StartTest ==
    /\ test_pc = "none"
    /\ test_pc' = "started"
    /\ resets' = 0
    /\ last' = "startTest"
    /\ UNCHANGED <<treeVars, streamVars, pluginVars, teardown, fileVars, settingVars,
                   removed, environ, runner, editorVars, selectVars>>

\* TestCase.tearDown
TearDown ==
    /\ test_pc = "started"
    /\ resets' = IF file_new /\ ~environ THEN resets + 1 ELSE resets
    /\ test_pc' = "torn_down"
    /\ last' = "tearDown"
    /\ UNCHANGED <<treeVars, streamVars, pluginVars, teardown, fileVars, settingVars,
                   removed, environ, runner, editorVars, selectVars>>

\* TestResult.stopTest: the custom runner's result is told that the test is
\* over, whether or not the test came as far as tearDown
StopTest ==
    /\ runner = "custom"
    /\ test_pc \in {"started", "torn_down"}
    /\ resets' = IF file_new THEN resets + 1 ELSE resets
    /\ test_pc' = "none"
    /\ last' = "stopTest"
    /\ UNCHANGED <<treeVars, streamVars, pluginVars, teardown, fileVars, settingVars,
                   removed, environ, runner, editorVars, selectVars>>

\* the test is over under another runner, whose result is not a TestResult of
\* this module
EndTest ==
    /\ runner = "none"
    /\ test_pc \in {"started", "torn_down"}
    /\ test_pc' = "none"
    /\ last' = "endTest"
    /\ UNCHANGED <<treeVars, streamVars, pluginVars, teardown, fileVars, settingVars,
                   removed, environ, runner, resets, editorVars, selectVars>>

\* the user sets a flag of the script editor
SetEditorFlag(f, value) ==
    /\ editor' = [editor EXCEPT ![f] = value]
    /\ last' = "scriptEditorInfo"
    /\ UNCHANGED <<treeVars, streamVars, pluginVars, teardown, fileVars, settingVars,
                   removed, runVars, saved, editor_before, logging_level, selectVars>>

(***************************************************************************)
(* run_selected_tests: the paths of the selected nodes, as strings of       *)
(* characters                                                              *)
(***************************************************************************)
\* TestNode.name of the nodes below the root of a tree of two modules, one of
\* them in a package, with their classes and test methods
ModuleNames == {<<"p", ".", "m">>, <<"n">>}
ClassNames == {<<"A">>, <<"B">>}
MethodNames == {<<"t">>}

\* a node below the root, as the names from the child of the root down to it
Chains ==
    {<<m>> : m \in ModuleNames}
        \cup {<<m, c>> : m \in ModuleNames, c \in ClassNames}
        \cup {<<m, c, t>> : m \in ModuleNames, c \in ClassNames, t \in MethodNames}

\* TestNode.path
RECURSIVE path(_)
path(chain) ==
    IF Len(chain) = 1 THEN chain[1]
    ELSE path(SubSeq(chain, 1, Len(chain) - 1)) \o <<".">> \o chain[Len(chain)]

NodePaths == {path(chain) : chain \in Chains}

\* str.split(".")
RECURSIVE split(_)
split(str) ==
    IF \A i \in 1 .. Len(str) : str[i] # "." THEN <<str>>
    ELSE LET i == CHOOSE k \in 1 .. Len(str) :
                      str[k] = "." /\ \A j \in 1 .. (k - 1) : str[j] # "."
         IN <<SubSeq(str, 1, i - 1)>> \o split(SubSeq(str, i + 1, Len(str)))

\* ".".join
RECURSIVE join(_)
join(tokens) ==
    IF Len(tokens) = 0 THEN <<>>
    ELSE IF Len(tokens) = 1 THEN tokens[1]
    ELSE tokens[1] \o <<".">> \o join(Tail(tokens))

\* the loop going through range(len(tokens)), the whole path included
RECURSIVE parent_selected_whole(_, _, _)
parent_selected_whole(paths, tokens, i) ==
    IF i >= Len(tokens) THEN FALSE
    ELSE IF join(SubSeq(tokens, 1, i + 1)) \in Range(paths) THEN TRUE
    ELSE parent_selected_whole(paths, tokens, i + 1)

\* run_selected_tests, the loop over i in range(len(tokens) - 1) from i on:
\* whether it breaks
RECURSIVE parent_selected(_, _, _)
parent_selected(paths, tokens, i) ==
    IF i >= Len(tokens) - 1 THEN FALSE
    ELSE IF join(SubSeq(tokens, 1, i + 1)) \in Range(paths) THEN TRUE
    ELSE parent_selected(paths, tokens, i + 1)

\* run_selected_tests: test_paths
prune(paths) == SelectSeq(paths, LAMBDA p : ~parent_selected(paths, split(p), 0))

InitSelection ==
    /\ selection = <<>>
    /\ test_paths = <<>>

\* the user selects one more node of the view
Select(p) ==
    /\ Len(selection) < MaxSelected
    /\ selection' = Append(selection, p)
    /\ last' = "select"
    /\ UNCHANGED <<treeVars, streamVars, pluginVars, teardown, fileVars, settingVars,
                   removed, runVars, editorVars, test_paths>>

\* run_selected_tests, up to the paths it hands to get_tests; the run of the
\* suite that follows is RunTests
RunSelectedTests ==
    /\ test_paths' = prune(selection)
    /\ last' = "run_selected_tests"
    /\ UNCHANGED <<treeVars, streamVars, pluginVars, teardown, fileVars, settingVars,
                   removed, runVars, editorVars, selection>>

InitMore ==
    /\ InitSettings
    /\ InitRemove
    /\ InitRun
    /\ InitEditor
    /\ InitSelection

(***************************************************************************)
(* The test tree: a tree built by refresh_tests, then run_tests and the     *)
(* view's get_status calls                                                  *)
(***************************************************************************)
InitTree ==
    /\ parent \in Trees
    /\ children = [n \in Nodes |-> SortedSeq({c \in Nodes \ {Root} : parent[c] = n})]
    /\ testClass \in [Leaves -> TestClasses]
    /\ status = [n \in Nodes |-> not_run]
    /\ tool_tip = [n \in Nodes |-> init_tool_tip(n, class_name(n))]
    /\ result = NoResult
    /\ query = NoQuery

Init ==
    /\ InitTree
    /\ InitStream
    /\ InitCase
    /\ InitMore
    /\ last = "init"

\* TestTreeModel.run_tests
RunTests(res) ==
    /\ LET s == run_tests_update([status |-> status, tool_tip |-> tool_tip], res)
       IN /\ status' = s.status
          /\ tool_tip' = s.tool_tip
    /\ result' = res
    /\ query' = NoQuery
    /\ last' = "run_tests"
    /\ UNCHANGED <<parent, children, testClass, streamVars, pluginVars, teardown, fileVars,
                   moreVars>>

\* GetStatus storing what it computed on the nodes, as a cache would
GetStatus_caching ==
    /\ query' = [asked |-> TRUE, value |-> [n \in Nodes |-> get_status(n)]]
    /\ status' = [n \in Nodes |-> get_status(n)]
    /\ last' = "get_status"
    /\ UNCHANGED <<parent, children, testClass, tool_tip, result, streamVars,
                   pluginVars, teardown, fileVars,
                   moreVars>>

\* TestTreeModel.data with Qt.DecorationRole for every index of the expanded
\* view: TestNode.get_icon calls TestNode.get_status
GetStatus ==
    /\ query' = [asked |-> TRUE, value |-> [n \in Nodes |-> get_status(n)]]
    /\ last' = "get_status"
    /\ UNCHANGED <<parent, children, testClass, status, tool_tip, result, streamVars,
                   pluginVars, teardown, fileVars,
                   moreVars>>

Next ==
    \/ \E res \in Results : ValidResult(res) /\ RunTests(res)
    \/ GetStatus

Spec == Init /\ [][Next]_vars

(***************************************************************************)
(* BaseTreeNode.remove                                                     *)
(***************************************************************************)
\* BaseTreeNode.parent, of a tree t of parents and children
parent_of(t, n) == IF n = Root THEN NoParent ELSE t.parent[n]

\* list.index
index(seq, x) == CHOOSE i \in 1 .. Len(seq) : seq[i] = x /\ \A j \in 1 .. (i - 1) : seq[j] # x

\* list.pop
pop(seq, i) == SubSeq(seq, 1, i - 1) \o SubSeq(seq, i + 1, Len(seq))

\* BaseTreeNode.row
row(t, n) == IF parent_of(t, n) # NoParent THEN index(t.children[t.parent[n]], n) ELSE 0

\* BaseTreeNode.remove, its first statement: the node leaves its parent
detach(t, n) ==
    IF parent_of(t, n) # NoParent
    THEN [parent |-> [t.parent EXCEPT ![n] = NoParent],
          children |-> [t.children EXCEPT ![t.parent[n]] = pop(@, row(t, n))]]
    ELSE t

\* BaseTreeNode.remove; its loop goes through the list self.children by
\* position while child.remove() pops the child from that very list
RECURSIVE remove(_, _), remove_children(_, _, _)
remove(t, n) == remove_children(detach(t, n), n, 1)
remove_children(t, n, i) ==
    IF i > Len(t.children[n]) THEN t
    ELSE remove_children(remove(t, t.children[n][i]), n, i + 1)

\* the nodes below n, by the lists of children
RECURSIVE below(_, _)
below(ch, n) ==
    {ch[n][i] : i \in 1 .. Len(ch[n])} \cup UNION {below(ch, ch[n][i]) : i \in 1 .. Len(ch[n])}

\* BaseTreeNode.remove
Remove(n) ==
    /\ LET t == remove([parent |-> parent, children |-> children], n)
       IN /\ parent' = t.parent
          /\ children' = t.children
    /\ removed' = [node |-> n, parent |-> parent_of([parent |-> parent], n),
                   descendants |-> below(children, n)]
    /\ last' = "remove"
    /\ UNCHANGED <<testClass, status, tool_tip, result, query, streamVars, pluginVars,
                   teardown, fileVars, settingVars, runVars, editorVars, selectVars>>

\* run_tests on the tree refresh_tests built; a tree that lost nodes is not run
NextRemove ==
    \/ removed = NoRemoval /\ \E res \in Results : ValidResult(res) /\ RunTests(res)
    \/ \E n \in Nodes : Remove(n)

SpecRemove == Init /\ [][NextRemove]_vars

(***************************************************************************)
(* The other components run beside one tree that no operation of theirs    *)
(* touches                                                                 *)
(***************************************************************************)
InitOneTree ==
    /\ parent = [c \in Nodes \ {Root} |-> Root]
    /\ children = [n \in Nodes |-> SortedSeq({c \in Nodes \ {Root} : parent[c] = n})]
    /\ testClass = [l \in Leaves |-> "SampleTests"]
    /\ status = [n \in Nodes |-> not_run]
    /\ tool_tip = [n \in Nodes |-> init_tool_tip(n, class_name(n))]
    /\ result = NoResult
    /\ query = NoQuery

InitComponents ==
    /\ InitOneTree
    /\ InitStream
    /\ InitCase
    /\ InitMore
    /\ last = "init"

NextStream == \E text \in Texts : Write(text)

SpecStream == InitComponents /\ [][NextStream]_vars

NextPlugins ==
    \/ \E c \in Classes, plugin \in Plugins : LoadPlugin(c, plugin)
    \/ \E c \in Classes : TearDownClass(c)

SpecPlugins == InitComponents /\ [][NextPlugins]_vars

NextFiles ==
    \/ \E file_name \in FileNames : GetTempFilename(file_name)
    \/ \E i \in 1 .. Len(files_created) : CreateFile(i)
    \/ \E value \in BOOLEAN : SetDeleteFiles(value)
    \/ \E c \in Classes : TearDownClass(c)

SpecFiles == InitComponents /\ [][NextFiles]_vars

NextSettings ==
    \/ \E directory \in DirNames : SetTempDir(directory)
    \/ \E directory \in DirNames : MakeDir(directory)
    \/ \E value \in BOOLEAN : SetDeleteFiles(value)
    \/ \E value \in BOOLEAN : SetBufferOutput(value)
    \/ \E value \in BOOLEAN : SetFileNew(value)

SpecSettings == InitComponents /\ [][NextSettings]_vars

\* the settings change between the tests
NextScene ==
    \/ StartTestRun
    \/ StopTestRun
    \/ StartTest
    \/ TearDown
    \/ StopTest
    \/ EndTest
    \/ \E value \in BOOLEAN : test_pc = "none" /\ SetFileNew(value)
    \/ \E value \in BOOLEAN : test_pc = "none" /\ SetBufferOutput(value)

SpecScene == InitComponents /\ [][NextScene]_vars

\* the setting and the flags change between the runs
NextEditor ==
    \/ StartTestRun
    \/ StopTestRun
    \/ \E value \in BOOLEAN : runner = "none" /\ SetBufferOutput(value)
    \/ \E f \in Flags, value \in BOOLEAN : runner = "none" /\ SetEditorFlag(f, value)

SpecEditor == InitComponents /\ [][NextEditor]_vars

NextSelect ==
    \/ \E p \in NodePaths : Select(p)
    \/ RunSelectedTests

SpecSelect == InitComponents /\ [][NextSelect]_vars

(***************************************************************************)
(* Status aggregation                                                      *)
(***************************************************************************)
Max(S) == CHOOSE x \in S : \A y \in S : y <= x

NonLeaves == Nodes \ Leaves

\* the nodes strictly between a leaf and the root
Inner == NonLeaves \ {Root}

Depth(n) == Cardinality(Ancestors(n))

\* C1: whenever a descendant, at any depth, of a node with children reports
\* error, get_status of that node is error, whatever the other descendants
\* report and in whatever order.
C1_ErrorPropagates ==
    \A n \in NonLeaves : \A d \in Descendants(n) :
        get_status(d) = error => get_status(n) = error

\* a run stored error on one leaf and success on a later sibling, and the
\* parent reports error
C1_Witness ==
    /\ last = "run_tests"
    /\ \E n \in NonLeaves : \E i, j \in 1 .. child_count(n) :
        /\ i < j
        /\ IsLeaf(children[n][i]) /\ IsLeaf(children[n][j])
        /\ class_name(children[n][i]) # "ModuleImportFailure"
        /\ status[children[n][i]] = error
        /\ get_status(children[n][j]) = success
        /\ get_status(n) = error

\* C2: when no node below the root reports error, every ancestor of a leaf
\* that reports fail (the root among them) reports fail, wherever the leaf is
\* among its siblings and whatever success, skipped or not-run comes after it.
C2_FailPropagates ==
    (\A d \in Nodes \ {Root} : get_status(d) # error)
        => \A l \in Leaves : get_status(l) = fail
            => \A a \in Ancestors(l) : get_status(a) = fail

\* a failing leaf is followed by a sibling that succeeded or was skipped, and
\* the root reports fail
C2_Witness ==
    /\ \A d \in Nodes \ {Root} : get_status(d) # error
    /\ \E n \in NonLeaves : \E i, j \in 1 .. child_count(n) :
        /\ i < j
        /\ IsLeaf(children[n][i])
        /\ get_status(children[n][i]) = fail
        /\ get_status(children[n][j]) \in {success, skipped}
        /\ get_status(Root) = fail

\* the status of the last child of n, in iteration order, that reports success
\* or skipped; not_run when there is none
last_seen(n) ==
    LET seen == {i \in 1 .. child_count(n) :
                    get_status(children[n][i]) \in {success, skipped}}
    IN IF seen = {} THEN not_run ELSE get_status(children[n][Max(seen)])

\* C3: a node with children none of which reports error or fail reports the
\* status of its last child that reports success or skipped, and not-run when
\* no child does; a not-run child overwrites nothing.
C3_LastSeen ==
    /\ \A n \in NonLeaves :
        (\A i \in 1 .. child_count(n) : get_status(children[n][i]) \notin {error, fail})
            => get_status(n) = last_seen(n)
    /\ (\A l \in Leaves : get_status(l) = skipped) => get_status(Root) = skipped

\* a child that succeeded or was skipped is followed by a not-run child, and
\* the parent still reports the earlier status
C3_Witness ==
    \E n \in NonLeaves : \E i, j \in 1 .. child_count(n) :
        /\ i < j
        /\ \A k \in 1 .. child_count(n) : get_status(children[n][k]) \notin {error, fail}
        /\ get_status(children[n][i]) = skipped
        /\ get_status(children[n][j]) = not_run
        /\ get_status(n) = skipped

\* C4, as the specification states it: the stored status of a node with
\* children is never written and is still not-run.
C4_NonLeafNeverWritten == \A n \in NonLeaves : status[n] = not_run

\* C4, amended: the stored status of the root is never written; a node
\* between the root and a leaf holds the value setData wrote on one of its
\* leaf descendants, and is not-run only while all of them are not-run.
C4_OnlyRootNeverWritten ==
    /\ status[Root] = not_run
    /\ \A n \in Inner :
        /\ status[n] \in {status[d] : d \in LeafDescendants(n)}
        /\ status[n] = not_run => \A d \in LeafDescendants(n) : status[d] = not_run

\* a run wrote the stored status of a node with children
C4_Witness ==
    /\ last = "run_tests"
    /\ \E n \in Inner : status[n] # not_run

RECURSIVE leaf_seq(_)
RECURSIVE leaf_seq_of(_, _)

\* the leaves below n, in iteration order
leaf_seq(n) == IF IsLeaf(n) THEN <<n>> ELSE leaf_seq_of(children[n], 1)

leaf_seq_of(ch, i) ==
    IF i > Len(ch) THEN <<>> ELSE leaf_seq(ch[i]) \o leaf_seq_of(ch, i + 1)

\* what a leaf reports: its stored status, or error for a ModuleImportFailure
leaf_status(l) == IF class_name(l) = "ModuleImportFailure" THEN error ELSE status[l]

\* the four level priority merge over the leaves of n alone
leaf_aggregate(n) ==
    LET ls == leaf_seq(n)
        st == [i \in 1 .. Len(ls) |-> leaf_status(ls[i])]
        seen == {i \in 1 .. Len(ls) : st[i] \in {success, skipped}}
    IN IF \E i \in 1 .. Len(ls) : st[i] = error THEN error
       ELSE IF \E i \in 1 .. Len(ls) : st[i] = fail THEN fail
       ELSE IF seen # {} THEN st[Max(seen)]
       ELSE not_run

\* C5: a get_status call changes no node's stored status, tool tip, parent or
\* children, and what it returns for a node with children is the aggregate of
\* the current statuses of the leaves below it, whatever is stored on the nodes
\* in between.
C5_OnDemand ==
    /\ [](query.asked => \A n \in NonLeaves : query.value[n] = leaf_aggregate(n))
    /\ [][last' = "get_status" => UNCHANGED <<status, tool_tip, parent, children>>]_vars

\* get_status was asked after a run, and a node with children reports a status
\* that is not the one stored on it
C5_Witness ==
    /\ query.asked
    /\ \E l \in Leaves : status[l] # not_run
    /\ \E n \in NonLeaves : query.value[n] # status[n]

\* the status of the list that run_tests stores last
final_status(lists) ==
    IF success \in lists THEN success
    ELSE IF skipped \in lists THEN skipped
    ELSE IF error \in lists THEN error
    ELSE fail

\* C6, as the specification states it: after run_tests every test of the
\* result has the status of each list it is in.
C6_StatusOfEveryList ==
    last = "run_tests" =>
        \A l \in Leaves : \A st \in result[l] :
            status[l] = st /\ get_status(l) = st

\* C6, amended: after run_tests every test of the result has the status of the
\* last list it is in, in the order failures, errors, skipped, successes, and
\* get_status of its leaf returns it.
C6_StatusOfLastList ==
    last = "run_tests" =>
        \A l \in Leaves : result[l] # {} =>
            /\ status[l] = final_status(result[l])
            /\ get_status(l) = final_status(result[l])

\* a run recorded a failure and an error for one test
C6_Witness ==
    /\ last = "run_tests"
    /\ \E l \in Leaves : result[l] = {fail, error} /\ status[l] = error

ImportTracebacks == {"import_traceback", "import_error_traceback"}

C7_ColorByPrefix ==
    \A i \in 1 .. Len(console) :
        console[i][2] = write_color(console[i][1], "normal_color")

(***************************************************************************)
(* Plug-ins and temp files                                                 *)
(***************************************************************************)
\* C9: every tearDownClass unloads exactly the plug-ins its class loaded, none
\* that another teardown has unloaded already, and load_plugin never fails
\* after an unload_plugins.
C9_UnloadsOwnPlugins ==
    /\ teardown.unloaded = teardown.expected
    /\ ~load_raised

\* C10: after delete_temp_files with Settings.delete_files true no registered
\* path exists on disk and files_created is empty; with delete_files false
\* nothing is deleted.
C10_DeletesAndClears ==
    last = "tearDownClass" =>
        IF teardown.delete_files
        THEN /\ \A i \in 1 .. Len(teardown.registered) : teardown.registered[i] \notin disk
             /\ files_created = <<>>
        ELSE disk = teardown.disk

(***************************************************************************)
(* Temporary file names, settings, node removal, scene resets, the script   *)
(* editor and the selection                                                *)
(***************************************************************************)
\* C11: the path get_temp_filename returns is under Settings.temp_dir, names
\* nothing that exists when it is called, and differs from every path an
\* earlier call returned, whether or not the caller created the earlier files
C11_UniquePath ==
    last = "get_temp_filename" =>
        /\ files_created[Len(files_created)].dir = temp_dir
        /\ files_created[Len(files_created)] \notin disk
        /\ \A i \in 1 .. (Len(files_created) - 1) :
               files_created[i] # files_created[Len(files_created)]

\* C12: set_temp_dir(directory) sets Settings.temp_dir to a directory that
\* exists and raises nothing; given a directory that does not exist it raises
\* RuntimeError and leaves temp_dir and every other setting as they were
C12_SetTempDir ==
    last = "set_temp_dir" =>
        IF set_call.existed
        THEN temp_dir = set_call.directory /\ ~set_call.raised
        ELSE set_call.raised /\ settings = set_call.before

\* a call naming a missing directory, after a call that set another directory
C12_Witness ==
    /\ last = "set_temp_dir"
    /\ set_call.raised
    /\ set_call.directory = "tmp3"
    /\ temp_dir = "tmp2"

\* C13: after n.remove() the node n has no parent, its former parent no longer
\* lists it, and every former descendant of n has no parent and no children
C13_RemovesSubtree ==
    last = "remove" =>
        /\ parent_of([parent |-> parent], removed.node) = NoParent
        /\ removed.parent # NoParent => removed.node \notin Range(children[removed.parent])
        /\ \A d \in removed.descendants : parent[d] = NoParent /\ children[d] = <<>>

\* C14: a test that is over has had its scene reset exactly once when
\* Settings.file_new is true, under the custom runner and without it, and not
\* at all when Settings.file_new is false
C14_ResetOnce ==
    last \in {"stopTest", "endTest"} => resets = (IF file_new THEN 1 ELSE 0)

\* C15: after startTestRun and stopTestRun the four flags of the script
\* editor are what they were just before startTestRun
C15_FlagsRestored == last = "stopTestRun" => editor = editor_before

\* q is p cut before one of its dots
IsProperDottedPrefix(q, p) ==
    /\ Len(q) < Len(p)
    /\ SubSeq(p, 1, Len(q)) = q
    /\ p[Len(q) + 1] = "."

\* C16: the paths run_selected_tests hands to get_tests are the selected
\* paths, in their order, of which no proper dotted prefix is selected too,
\* so that none of them lies below another
C16_PrunesDescendants ==
    last = "run_selected_tests" =>
        /\ test_paths = SelectSeq(selection,
                           LAMBDA p : \A q \in Range(selection) : ~IsProperDottedPrefix(q, p))
        /\ \A p, q \in Range(test_paths) : ~IsProperDottedPrefix(q, p)

\* a test method of the packaged module is selected before its module, and
\* only the module is handed on
C16_Witness ==
    /\ last = "run_selected_tests"
    /\ selection = <<path(<<<<"p", ".", "m">>, <<"A">>, <<"t">>>>), <<"p", ".", "m">>>>
    /\ test_paths = <<<<"p", ".", "m">>>>

====
